---- MODULE Spec2Model ----
(***************************************************************************)
(* Model of the label selector of the text-classifier global actions       *)
(* (AnnotationLabelSelector.vue): a dropdown with a search box, a list of   *)
(* label options (single- or multi-select) and a `selected` event.          *)
(*                                                                         *)
(* A JavaScript string is a sequence of one-character strings.  The value   *)
(* `undefined` is the tuple <<"undefined">>, which is no such sequence.     *)
(***************************************************************************)
EXTENDS Naturals, Sequences, FiniteSets

VARIABLES
    options,          \* prop options: Array of label strings
    multiLabel,       \* prop multiLabel: Boolean
    visible,          \* data visible
    searchText,       \* data searchText (a string or undefined)
    selectedOptions,  \* data selectedOptions
    emitted,          \* payloads of the `selected` events emitted so far
    shown,            \* the option list of the last render that succeeded
    lastOp,           \* the handler that ran last, with its argument
    fOptions,         \* filterSearch call: argument options
    fText,            \* filterSearch call: argument text
    fResult,          \* filterSearch call: outcome
    fPc,              \* filterSearch call: "ready" or "done"
    queryText,        \* search bar: data queryText (a string or null)
    datasetQueryText, \* search bar: prop dataset.query.text
    submitted,        \* search bar: payloads of the `submit` events so far
    barOp             \* search bar: the handler that ran last

compVars == <<options, multiLabel, visible, searchText, selectedOptions,
              emitted, shown, lastOp>>
callVars == <<fOptions, fText, fResult, fPc>>
barVars == <<queryText, datasetQueryText, submitted, barOp>>
vars == <<options, multiLabel, visible, searchText, selectedOptions,
          emitted, shown, lastOp, fOptions, fText, fResult, fPc,
          queryText, datasetQueryText, submitted, barOp>>

----------------------------------------------------------------------------
(* Bounds and input sets *)

MaxOptions == 2
MaxEmits == 2
MaxSubmits == 2

undefined == <<"undefined">>
null == <<"null">>

\* labels the parent passes to the mounted component
CompLabels == { <<"A", "b">>, <<"B">> }
\* texts the user types into the search box of the mounted component
CompQueries == { <<"a">>, <<"b", "a">>, <<"(">> }

\* labels and texts for calls of filterSearch
LabelPool == { <<"A", "b">>, <<"B">>, <<"a", ".">>, <<"b", "a">> }
QueryPool == { <<>>, <<"a">>, <<"A", "B">>, <<"b">>, <<".">>, <<"a", ".">>,
               <<"a", "*">>, <<"*">>, <<"(">> }

\* texts of the search bar: typed by the user, or held by the dataset
BarTexts == { <<>>, <<"a">>, <<"b">> }

SeqsUpTo(S, n) == UNION { [1..k -> S] : k \in 0..n }

----------------------------------------------------------------------------
(* Strings *)

LowerChar(c) ==
    CASE c = "A" -> "a"
      [] c = "B" -> "b"
      [] OTHER -> c

toLowerCase(s) == [i \in DOMAIN s |-> LowerChar(s[i])]

\* q occurs in s as a literal substring
Includes(s, q) ==
    \E i \in 0..Len(s) :
        /\ i + Len(q) <= Len(s)
        /\ \A j \in 1..Len(q) : s[i + j] = q[j]

----------------------------------------------------------------------------
(* String.prototype.match(text): text is compiled with new RegExp(text).   *)
(* The patterns of the model are made of letters, ".", "*" and "(".         *)

\* new RegExp(p) throws a SyntaxError: an unterminated group, or a "*"
\* with nothing to repeat
RegExpThrows(p) ==
    \/ \E i \in DOMAIN p : p[i] = "("
    \/ \E i \in DOMAIN p : p[i] = "*" /\ (i = 1 \/ p[i - 1] = "*")

\* the atom at position i of p is followed by "*"
Starred(p, i) == i < Len(p) /\ p[i + 1] = "*"

AtomMatches(a, c) == a = "." \/ a = c

RECURSIVE MatchAt(_, _, _, _)
\* the pattern p from position i on matches s from position k on
MatchAt(p, i, s, k) ==
    IF i > Len(p) THEN TRUE
    ELSE IF Starred(p, i)
         THEN \E n \in 0..(Len(s) - k + 1) :
                  /\ \A m \in 0..(n - 1) : AtomMatches(p[i], s[k + m])
                  /\ MatchAt(p, i + 2, s, k + n)
         ELSE /\ k <= Len(s)
              /\ AtomMatches(p[i], s[k])
              /\ MatchAt(p, i + 1, s, k + 1)

\* s.match(p) is not null, for a pattern p that compiles
RegExpMatch(s, p) == \E k \in 1..(Len(s) + 1) : MatchAt(p, 1, s, k)

----------------------------------------------------------------------------
(* Methods of the component *)

Returned(list) == [threw |-> FALSE, value |-> list]
Thrown == [threw |-> TRUE, value |-> <<>>]

\* filterSearch with the test of line 95 written as text === ""
filterSearch_testsEmpty(opts, text) ==
    IF text = <<>>
    THEN Returned(opts)
    ELSE IF Len(opts) > 0 /\ (text = undefined \/ RegExpThrows(toLowerCase(text)))
         THEN Thrown
         ELSE Returned(SelectSeq(opts,
                  LAMBDA item : RegExpMatch(toLowerCase(item), toLowerCase(text))))

filterSearch(opts, text) ==
    IF text = undefined
    THEN Returned(opts)
    ELSE IF Len(opts) > 0 /\ RegExpThrows(toLowerCase(text))
         THEN Thrown
         ELSE Returned(SelectSeq(opts,
                  LAMBDA item : RegExpMatch(toLowerCase(item), toLowerCase(text))))

\* onVisibility submitting the pending selection when it closes
onVisibility_emits(value) ==
    /\ visible' = value
    /\ searchText' = undefined
    /\ emitted' = IF value THEN emitted ELSE Append(emitted, selectedOptions)
    /\ UNCHANGED selectedOptions

\* onVisibility clearing the search text only when it closes
onVisibility_clearsOnClose(value) ==
    /\ visible' = value
    /\ searchText' = IF value THEN searchText ELSE undefined
    /\ UNCHANGED <<selectedOptions, emitted>>

onVisibility(value) ==
    /\ visible' = value
    /\ searchText' = undefined
    /\ UNCHANGED <<selectedOptions, emitted>>

StringArg(s) == [type |-> "string", value |-> s]
ArrayArg(a) == [type |-> "object", value |-> a]

\* selectedOption emitting twice
selectedOption_emitsTwice(labels) ==
    LET labelsFormat == IF labels.type = "string"
                        THEN <<labels.value>>
                        ELSE labels.value
    IN  /\ emitted' = Append(Append(emitted, labelsFormat), labelsFormat)
        /\ visible' = FALSE
        /\ selectedOptions' = <<>>
        /\ UNCHANGED searchText

\* selectedOption without line 88
selectedOption_keepsSelection(labels) ==
    LET labelsFormat == IF labels.type = "string"
                        THEN <<labels.value>>
                        ELSE labels.value
    IN  /\ emitted' = Append(emitted, labelsFormat)
        /\ visible' = FALSE
        /\ UNCHANGED <<selectedOptions, searchText>>

\* selectedOption returning early on an empty list
selectedOption_skipsEmpty(labels) ==
    LET labelsFormat == IF labels.type = "string"
                        THEN <<labels.value>>
                        ELSE labels.value
    IN  /\ emitted' = IF labelsFormat = <<>>
                      THEN emitted
                      ELSE Append(emitted, labelsFormat)
        /\ visible' = FALSE
        /\ selectedOptions' = <<>>
        /\ UNCHANGED searchText

selectedOption(labels) ==
    LET labelsFormat == IF labels.type = "string"
                        THEN <<labels.value>>
                        ELSE labels.value
    IN  /\ emitted' = Append(emitted, labelsFormat)
        /\ visible' = FALSE
        /\ selectedOptions' = <<>>
        /\ UNCHANGED searchText

clearSearchText ==
    /\ searchText' = undefined
    /\ UNCHANGED <<visible, selectedOptions, emitted>>

----------------------------------------------------------------------------
(* Child components *)

\* select-options type=multiple, v-model: a click on an option adds it to
\* the model when it is absent and removes it when it is present
toggleMulti(sel, option) ==
    IF \E i \in DOMAIN sel : sel[i] = option
    THEN SelectSeq(sel, LAMBDA x : x # option)
    ELSE Append(sel, option)

\* the render of the template: the lists and the buttons show
\* filterSearch(options, searchText); a render that throws leaves the
\* previous render on screen
Render(opts, text, prev) ==
    LET r == filterSearch(opts, text)
    IN  IF r.threw THEN prev ELSE r.value

InList(list, x) == \E i \in DOMAIN list : list[i] = x

\* v-if of the Cancel and Annotate buttons
ButtonsShown == multiLabel /\ Len(shown) > 0

Op(name, arg) == [name |-> name, arg |-> arg]

Rerender ==
    /\ shown' = Render(options, searchText', shown)
    /\ UNCHANGED <<options, multiLabel, callVars, barVars>>

\* the search bar as constructed, over a dataset without a query text
BarIdle ==
    /\ queryText = null
    /\ datasetQueryText = undefined
    /\ submitted = <<>>
    /\ barOp = "mount"

----------------------------------------------------------------------------
(* The mounted component *)

Init ==
    /\ options \in SeqsUpTo(CompLabels, MaxOptions)
    /\ multiLabel \in BOOLEAN
    /\ visible = FALSE
    /\ searchText = undefined
    /\ selectedOptions = <<>>
    /\ emitted = <<>>
    /\ shown = options
    /\ lastOp = Op("mount", <<>>)
    /\ fOptions = <<>>
    /\ fText = undefined
    /\ fResult = Returned(<<>>)
    /\ fPc = "done"
    /\ BarIdle

\* filter-dropdown emits visibility(true)
Open ==
    /\ onVisibility(TRUE)
    /\ lastOp' = Op("open", <<>>)
    /\ Rerender

\* filter-dropdown emits visibility(false)
Dismiss ==
    /\ onVisibility(FALSE)
    /\ lastOp' = Op("dismiss", <<>>)
    /\ Rerender

\* the Cancel button
Cancel ==
    /\ visible
    /\ ButtonsShown
    /\ onVisibility(FALSE)
    /\ lastOp' = Op("cancel", <<>>)
    /\ Rerender

\* the Annotate button
ConfirmMulti ==
    /\ visible
    /\ ButtonsShown
    /\ Len(emitted) < MaxEmits
    /\ selectedOption(ArrayArg(selectedOptions))
    /\ lastOp' = Op("confirmMulti", <<>>)
    /\ Rerender

\* select-options type=single emits selected(x)
SelectSingle(x) ==
    /\ visible
    /\ ~multiLabel
    /\ InList(shown, x)
    /\ Len(emitted) < MaxEmits
    /\ selectedOption(StringArg(x))
    /\ lastOp' = Op("selectSingle", x)
    /\ Rerender

\* select-options type=multiple wired to selectedOption as type=single is
ToggleMulti_submits(x) ==
    /\ visible
    /\ multiLabel
    /\ InList(shown, x)
    /\ Len(emitted) < MaxEmits
    /\ selectedOption(ArrayArg(toggleMulti(selectedOptions, x)))
    /\ lastOp' = Op("toggleMulti", x)
    /\ Rerender

\* select-options type=multiple updates its v-model
ToggleMulti(x) ==
    /\ visible
    /\ multiLabel
    /\ InList(shown, x)
    /\ selectedOptions' = toggleMulti(selectedOptions, x)
    /\ UNCHANGED <<visible, searchText, emitted>>
    /\ lastOp' = Op("toggleMulti", x)
    /\ Rerender

\* the search dropping the selected options it hides
SetSearchQuery_prunes(q) ==
    /\ visible
    /\ searchText' = q
    /\ selectedOptions' =
           SelectSeq(selectedOptions,
                     LAMBDA x : InList(Render(options, q, shown), x))
    /\ UNCHANGED <<visible, emitted>>
    /\ lastOp' = Op("setSearchQuery", q)
    /\ Rerender

\* select-options-search updates its v-model
SetSearchQuery(q) ==
    /\ visible
    /\ searchText' = q
    /\ UNCHANGED <<visible, selectedOptions, emitted>>
    /\ lastOp' = Op("setSearchQuery", q)
    /\ Rerender

\* select-options-search emits clear
ClearSearchQuery ==
    /\ visible
    /\ clearSearchText
    /\ lastOp' = Op("clearSearchQuery", <<>>)
    /\ Rerender

Next ==
    \/ Open
    \/ Dismiss
    \/ Cancel
    \/ ConfirmMulti
    \/ \E x \in CompLabels : SelectSingle(x)
    \/ \E x \in CompLabels : ToggleMulti(x)
    \/ \E q \in CompQueries : SetSearchQuery(q)
    \/ ClearSearchQuery

Spec == Init /\ [][Next]_vars

\* the parent replaces the options prop; the template renders again
ReplaceOptions(newOptions) ==
    /\ newOptions # options
    /\ options' = newOptions
    /\ shown' = Render(newOptions, searchText, shown)
    /\ lastOp' = Op("replaceOptions", <<>>)
    /\ UNCHANGED <<multiLabel, visible, searchText, selectedOptions, emitted,
                   callVars, barVars>>

\* the mounted component under a parent that replaces options
NextParent ==
    \/ \E newOptions \in SeqsUpTo(CompLabels, MaxOptions) :
           ReplaceOptions(newOptions)
    \/ Next

SpecParent == Init /\ [][NextParent]_vars

----------------------------------------------------------------------------
(* Calls of filterSearch *)

InitCall ==
    /\ fOptions \in SeqsUpTo(LabelPool, MaxOptions)
    /\ fText \in QueryPool \cup {undefined}
    /\ fResult = Returned(<<>>)
    /\ fPc = "ready"
    /\ options = <<>>
    /\ multiLabel = FALSE
    /\ visible = FALSE
    /\ searchText = undefined
    /\ selectedOptions = <<>>
    /\ emitted = <<>>
    /\ shown = <<>>
    /\ lastOp = Op("mount", <<>>)
    /\ BarIdle

CallFilterSearch ==
    /\ fPc = "ready"
    /\ fResult' = filterSearch(fOptions, fText)
    /\ fPc' = "done"
    /\ UNCHANGED <<fOptions, fText, compVars, barVars>>

NextCall == CallFilterSearch

SpecCall == InitCall /\ [][NextCall]_vars

----------------------------------------------------------------------------
(* The search bar *)

\* JavaScript truthiness of a string, undefined or null
Truthy(v) == v # <<>> /\ v # undefined /\ v # null

\* computed query, get
query == IF queryText = null THEN datasetQueryText ELSE queryText

\* computed query, set
setQuery(val) == queryText' = val

submit(q) ==
    /\ submitted' = Append(submitted, q)
    /\ UNCHANGED queryText

\* removeFilter going back to the query of the dataset
removeFilter_resets ==
    /\ setQuery(null)
    /\ submitted' = Append(submitted, IF queryText' = null
                                      THEN datasetQueryText
                                      ELSE queryText')

\* line 83 reads the computed query after line 82 has set it
removeFilter ==
    /\ setQuery(<<>>)
    /\ submitted' = Append(submitted, IF queryText' = null
                                      THEN datasetQueryText
                                      ELSE queryText')

\* v-else of the search icon: the close icon is shown
CloseIconShown == ~(~Truthy(query) /\ ~Truthy(datasetQueryText))

ComponentIdle ==
    /\ options = <<>>
    /\ multiLabel = FALSE
    /\ visible = FALSE
    /\ searchText = undefined
    /\ selectedOptions = <<>>
    /\ emitted = <<>>
    /\ shown = <<>>
    /\ lastOp = Op("mount", <<>>)
    /\ fOptions = <<>>
    /\ fText = undefined
    /\ fResult = Returned(<<>>)
    /\ fPc = "done"

InitBar ==
    /\ queryText = null
    /\ datasetQueryText \in BarTexts \cup {undefined}
    /\ submitted = <<>>
    /\ barOp = "mount"
    /\ ComponentIdle

\* base-input updates its v-model
TypeQuery(val) ==
    /\ setQuery(val)
    /\ barOp' = "input"
    /\ UNCHANGED <<datasetQueryText, submitted, compVars, callVars>>

\* the form is submitted
SubmitQuery ==
    /\ Len(submitted) < MaxSubmits
    /\ submit(query)
    /\ barOp' = "submit"
    /\ UNCHANGED <<datasetQueryText, compVars, callVars>>

\* a click on the close icon
RemoveFilter ==
    /\ CloseIconShown
    /\ Len(submitted) < MaxSubmits
    /\ removeFilter
    /\ barOp' = "removeFilter"
    /\ UNCHANGED <<datasetQueryText, compVars, callVars>>

\* the parent changes the query text of the dataset
SetDatasetQuery(t) ==
    /\ t # datasetQueryText
    /\ datasetQueryText' = t
    /\ barOp' = "dataset"
    /\ UNCHANGED <<queryText, submitted, compVars, callVars>>

NextBar ==
    \/ \E val \in BarTexts : TypeQuery(val)
    \/ SubmitQuery
    \/ RemoveFilter
    \/ \E t \in BarTexts \cup {undefined} : SetDatasetQuery(t)

SpecBar == InitBar /\ [][NextBar]_vars

----------------------------------------------------------------------------
(* Properties of the mounted component (Spec) *)

Range(list) == { list[i] : i \in DOMAIN list }

Closes(name) == name \in {"dismiss", "cancel"}

\* C1: after cancel (onVisibility(false)) the pending multi-select
\* selection is empty, so a later confirmMulti cannot emit a label that was
\* toggled before the cancel.
C1_CancelDiscardsSelection ==
    Closes(lastOp.name) => selectedOptions = <<>>

\* C2: whenever the dropdown is closed, by whatever path it was closed,
\* searchText is undefined.
C2_ClosedHasNoSearchText ==
    ~visible => searchText = undefined

\* C3: in single-select mode selectSingle(x) emits exactly one selected
\* event, with payload [x], and leaves the dropdown closed.
C3_SelectSingleEmitsOne ==
    [][\A x \in CompLabels :
          lastOp' = Op("selectSingle", x)
              => /\ emitted' = Append(emitted, <<x>>)
                 /\ ~visible']_vars

C3_Witness ==
    /\ lastOp.name = "selectSingle"
    /\ ~multiLabel
    /\ ~visible
    /\ emitted = << <<lastOp.arg>> >>

\* C4: confirmMulti emits exactly one selected event whose payload is the
\* pending selection as it stood when confirming (same elements, same
\* order), and leaves the dropdown closed and selectedOptions empty.
C4_ConfirmEmitsPending ==
    [][lastOp'.name = "confirmMulti"
          => /\ emitted' = Append(emitted, selectedOptions)
             /\ ~visible'
             /\ selectedOptions' = <<>>]_vars

\* a confirmed selection of two labels, toggled against the order of options
C4_Witness ==
    /\ lastOp.name = "confirmMulti"
    /\ ~visible
    /\ selectedOptions = <<>>
    /\ Len(options) = 2
    /\ emitted = << <<options[2], options[1]>> >>
    /\ options[1] # options[2]

C6_VisibilityEmitsNothing ==
    [][lastOp'.name \in {"open", "dismiss", "cancel"}
          => emitted' = emitted]_vars

\* cancel with a pending selection and nothing emitted
C6_Witness ==
    /\ lastOp.name = "cancel"
    /\ selectedOptions # <<>>
    /\ emitted = <<>>
    /\ ~visible

\* C12: confirmMulti with an empty pending selection is not suppressed: it
\* emits exactly one selected event, with the empty list, and closes the
\* dropdown.
C12_EmptyConfirmEmits ==
    [][(lastOp'.name = "confirmMulti" /\ selectedOptions = <<>>)
          => /\ Len(emitted') = Len(emitted) + 1
             /\ emitted'[Len(emitted')] = <<>>
             /\ visible
             /\ ~visible']_vars

\* Annotate was pressed right after opening, with nothing toggled
C12_Witness ==
    /\ lastOp.name = "confirmMulti"
    /\ multiLabel
    /\ ~visible
    /\ Len(emitted) = 2
    /\ emitted[1] # <<>>
    /\ emitted[2] = <<>>

\* C13: whenever the dropdown is opened through onVisibility(true), after
\* whatever operations, searchText is undefined and the displayed list
\* filterSearch(options, searchText) is the full options sequence.
C13_OpenShowsAllOptions ==
    lastOp.name = "open"
        => /\ visible
           /\ searchText = undefined
           /\ filterSearch(options, searchText) = Returned(options)
           /\ shown = options

\* reopened after a close through a pick or a confirm
C13_Witness ==
    /\ lastOp.name = "open"
    /\ visible
    /\ Len(emitted) > 0
    /\ Len(options) = 2
    /\ shown = options

\* C14: setSearchQuery and clearSearchQuery change searchText and leave
\* selectedOptions, visible and the emitted events alone; an option toggled
\* on and then hidden by the filter is still in the payload of the next
\* confirmMulti.
C14_SearchLeavesSelection ==
    [][/\ lastOp'.name \in {"setSearchQuery", "clearSearchQuery"}
            => /\ selectedOptions' = selectedOptions
               /\ visible' = visible
               /\ emitted' = emitted
       /\ \A x \in CompLabels :
            (lastOp'.name = "confirmMulti" /\ x \in Range(selectedOptions)
                 /\ ~InList(shown, x))
                => x \in Range(emitted'[Len(emitted')])]_vars

\* "B" was confirmed while the search text "a" hid it
C14_Witness ==
    /\ lastOp.name = "confirmMulti"
    /\ searchText = <<"a">>
    /\ options = << <<"A", "b">>, <<"B">> >>
    /\ shown = << <<"A", "b">> >>
    /\ emitted = << << <<"B">> >> >>

\* C15: in multi-select mode the Cancel and Annotate buttons are offered
\* exactly when filterSearch(options, searchText) is a non-empty list, so
\* confirmMulti cannot occur while the search text matches no option.
C15_ButtonsIffMatch ==
    ButtonsShown <=>
        /\ multiLabel
        /\ ~filterSearch(options, searchText).threw
        /\ Len(filterSearch(options, searchText).value) > 0

\* C16 (SpecParent): every label carried by a selected event is an element
\* of the options sequence that is current when the event is emitted.
C16_EmittedLabelsAreOptions ==
    lastOp.name \in {"confirmMulti", "selectSingle"}
        => Range(emitted[Len(emitted)]) \subseteq Range(options)

----------------------------------------------------------------------------
(* Properties of filterSearch (SpecCall) *)

RECURSIVE IsSubseq(_, _)
\* a is b with some elements left out
IsSubseq(a, b) ==
    IF a = <<>> THEN TRUE
    ELSE IF b = <<>> THEN FALSE
    ELSE IF Head(a) = Head(b) THEN IsSubseq(Tail(a), Tail(b))
    ELSE IsSubseq(a, Tail(b))

\* C7: for a string query q, filterSearch(O, q) is exactly the elements of
\* O that contain q as a case-insensitive literal substring.
C7_FilterIsLiteralSubstring ==
    (fPc = "done" /\ fText # undefined)
        => /\ ~fResult.threw
           /\ fResult.value =
                  SelectSeq(fOptions,
                      LAMBDA item : Includes(toLowerCase(item), toLowerCase(fText)))

\* C8: filterSearch(O, undefined) returns O: same elements, same order,
\* same multiplicity.
C8_UndefinedIsIdentity ==
    (fPc = "done" /\ fText = undefined) => fResult = Returned(fOptions)

\* the call returned a list holding the same label twice
C8_Witness ==
    /\ fPc = "done"
    /\ fText = undefined
    /\ Len(fOptions) = 2
    /\ fOptions[1] = fOptions[2]
    /\ ~fResult.threw
    /\ Len(fResult.value) = 2

\* C9: for every O and q, filterSearch(O, q) is a subsequence of O.
C9_FilterIsSubsequence ==
    fPc = "done" => (~fResult.threw /\ IsSubseq(fResult.value, fOptions))

\* C10: for every O and every string q, filterSearch(O, q) returns a list
\* and does not raise.
C10_FilterNeverRaises ==
    (fPc = "done" /\ fText # undefined) => ~fResult.threw

----------------------------------------------------------------------------
(* Properties of the search bar (SpecBar) *)

\* C11: every submit event carries the current query, which is queryText
\* when queryText is not null and dataset.query.text otherwise; removeFilter
\* sets the query to "" and emits submit("") whatever dataset.query.text is,
\* and from then on the query does not fall back to dataset.query.text.
C11_SubmitCarriesQuery ==
    [][/\ barOp' = "submit"
            => /\ submitted' =
                     Append(submitted, IF queryText # null
                                       THEN queryText
                                       ELSE datasetQueryText)
               /\ queryText' = queryText
       /\ barOp' = "removeFilter"
            => /\ queryText' = <<>>
               /\ submitted' = Append(submitted, <<>>)
       /\ (barOp = "removeFilter" \/ queryText # null)
            => (queryText' # null /\ query' = queryText')]_vars

\* the filter of a dataset with a query text was removed, and a later submit
\* carried "" although the dataset still holds its text
C11_Witness ==
    /\ barOp = "submit"
    /\ Truthy(datasetQueryText)
    /\ submitted = << <<>>, <<>> >>
    /\ queryText = <<>>

====
